---- MODULE Spec2Model ----
(***************************************************************************)
(* Model of lm_classification/utils/api.py: the retrying caller            *)
(* openai_method_retry, the cost-confirmation gate _openai_api_call_is_ok  *)
(* and the batching orchestration gpt3_complete.                           *)
(*                                                                         *)
(* The program is single-threaded; pc is the position of its only thread.  *)
(* A caller invokes one of the two public functions from "idle".           *)
(***************************************************************************)
EXTENDS Integers, Sequences, FiniteSets, TLC

(* ------------------------------ bounds --------------------------------- *)
\* longest list of texts handed to gpt3_complete
MaxTexts == 45
\* longest bare string handed to gpt3_complete
MaxStrLen == 3
\* largest max_num_tries handed directly to openai_method_retry
MaxTries == 6
\* answers other than 'y'/'n' the operator gives before giving up on typos
MaxPrompts == 1

(* --------------------------- python values ----------------------------- *)
\* a str is a record with field chars, a list a record with field items;
\* iterating or slicing a str yields strs, as in Python
PyStr(cs) == [chars |-> cs]
PyList(xs) == [items |-> xs]
IsStr(x) == "chars" \in DOMAIN x
PyLen(x) == IF IsStr(x) THEN Len(x.chars) ELSE Len(x.items)
Min(a, b) == IF a < b THEN a ELSE b
\* x[lo:hi] for 0 <= lo <= hi
PySlice(x, lo, hi) ==
    IF IsStr(x)
    THEN PyStr(SubSeq(x.chars, lo + 1, Min(hi, Len(x.chars))))
    ELSE PyList(SubSeq(x.items, lo + 1, Min(hi, Len(x.items))))
\* list(x): the elements iteration yields
PyIter(x) ==
    IF IsStr(x)
    THEN [i \in 1..Len(x.chars) |-> PyStr(<<x.chars[i]>>)]
    ELSE x.items

\* the i-th text of an input list: distinct per index, one or two characters
TextOf(i) == PyStr([k \in 1..(1 + (i % 2)) |-> i])
TextsInputs ==
    { PyList([i \in 1..n |-> TextOf(i)]) : n \in 0..MaxTexts }
    \cup { PyStr([i \in 1..n |-> i]) : n \in 0..MaxStrLen }

(* ----------------------------- constants ------------------------------- *)
batch_size_half == 20 \div 2
batch_size == 20
default_max_num_tries == 5
Models == {"text-davinci-003", "my-finetuned-model"}
MaxTokensValues == {0, 16}
Responses == {"y", "n", "yes"}
TriesValues == (0 - 1)..MaxTries

TransientKinds == {"ServiceUnavailableError", "RateLimitError"}
OtherKinds == {"InvalidRequestError"}
Unbound == [kind |-> "unbound", call |-> 0]
SleepEvent == [kind |-> "sleep", call |-> 0]
NoResult == [kind |-> "none"]
\* lines 30-37: dollars per 1000 tokens, in units of 0.0001 dollar
InitialCosts ==
    [m \in {"text-ada-001", "text-babbage-001", "text-curie-001",
            "text-davinci-003"} |->
        CASE m = "text-ada-001" -> 4
          [] m = "text-babbage-001" -> 5
          [] m = "text-curie-001" -> 20
          [] m = "text-davinci-003" -> 200]
NoCost == [kind |-> "none"]

(* ------------------------------- state --------------------------------- *)
VARIABLES
    pc,            \* position of the thread
    entry,         \* function the caller invoked
    arg_texts,     \* the caller's texts argument, as passed
    texts,         \* gpt3_complete's local texts
    model, max_tokens, ask_if_ok,
    gate_texts,    \* _openai_api_call_is_ok's local texts
    num_tokens,    \* _openai_api_call_is_ok's token estimate
    cost,          \* _openai_api_call_is_ok's cost: 'unknown' or cents
    output,        \* last answer read by input()
    num_prompts,   \* how many times input() was called
    choices,       \* gpt3_complete's accumulator
    offset,        \* position of the batch.constant generator
    texts_batch,   \* current chunk
    batches,       \* chunks handed to openai_method_retry, in order
    kwargs,        \* openai_method_kwargs of the current retry call
    max_num_tries, num_tries, e, exception,
    trace,         \* events of the current retry call: outcomes and sleeps
    retry_result,  \* how the current retry call ended
    response,      \* value returned to gpt3_complete
    calls,         \* every remote call of the run, in order: its keyword
                   \* arguments and whether it succeeded
    outcome,       \* how the caller's invocation ended
    model_to_cost_per_1k,  \* the module-level mapping
    called_before  \* an earlier invocation has finished

gateVars == <<gate_texts, num_tokens, cost, output, num_prompts>>
argVars == <<entry, arg_texts, texts, model, max_tokens, ask_if_ok>>
loopVars == <<choices, offset, texts_batch, batches>>
retryVars == <<kwargs, max_num_tries, num_tries, e, exception, trace,
               retry_result, response, calls>>
moduleVars == <<model_to_cost_per_1k, called_before>>
vars == <<pc, argVars, gateVars, loopVars, retryVars, outcome, moduleVars>>

Init ==
    /\ pc = "idle"
    /\ entry = "none"
    /\ arg_texts = PyList(<<>>)
    /\ texts = PyList(<<>>)
    /\ model = "text-davinci-003"
    /\ max_tokens = 0
    /\ ask_if_ok = FALSE
    /\ gate_texts = <<>>
    /\ num_tokens = 0
    /\ cost = NoCost
    /\ output = "None"
    /\ num_prompts = 0
    /\ choices = <<>>
    /\ offset = 0
    /\ texts_batch = PyList(<<>>)
    /\ batches = <<>>
    /\ kwargs = [prompt |-> PyList(<<>>), model |-> "text-davinci-003",
                 max_tokens |-> 0]
    /\ max_num_tries = default_max_num_tries
    /\ num_tries = 0
    /\ e = Unbound
    /\ exception = Unbound
    /\ trace = <<>>
    /\ retry_result = NoResult
    /\ response = [choices |-> <<>>]
    /\ calls = <<>>
    /\ outcome = NoResult
    /\ model_to_cost_per_1k = InitialCosts
    /\ called_before = FALSE

(* ------------------------ external collaborators ----------------------- *)
\* gpt2_tokenizer(texts)['input_ids'][i]: one token per character
TokenCount(t) == Len(t.chars)
RECURSIVE SumTokens(_)
SumTokens(ts) ==
    IF ts = <<>> THEN 0 ELSE TokenCount(Head(ts)) + SumTokens(Tail(ts))

\* openai.Completion.create: one choice per prompt of the batch, in prompt
\* order; a bare string prompt is a single prompt
Create(kw, id) ==
    LET ps == IF IsStr(kw.prompt) THEN <<kw.prompt>> ELSE kw.prompt.items
    IN [choices |-> [j \in 1..Len(ps) |->
                       [prompt |-> ps[j], index |-> j - 1, call |-> id]]]

\* batch.constant(lst, size): the chunk the generator yields at position off
constant(lst, size, off) == PySlice(lst, off, off + size)

(* --------------------------- gpt3_complete ----------------------------- *)
\* no isinstance check: the argument is used as passed
Normalize_AsPassed(t) == t

\* lines 104-106
Normalize(t) == IF IsStr(t) THEN PyList(<<t>>) ELSE t

\* the completion bound left out of the estimate
GateTokens_PromptsOnly(ts, mt) == SumTokens(ts)

\* lines 72-76
GateTokens(ts, mt) == SumTokens(ts) + Len(ts) * mt

\* round(num / den) to the nearest integer, ties to the even one
RoundHalfEven(num, den) ==
    LET f == num \div den
        r == num % den
    IN IF 2 * r > den THEN f + 1
       ELSE IF 2 * r < den THEN f
       ELSE IF f % 2 = 0 THEN f ELSE f + 1

\* lines 77-81: round(num_tokens * cost_per_1k / 1_000, 2), kept in cents
GateCost(mapping, m, n) ==
    IF m \notin DOMAIN mapping
    THEN [kind |-> "unknown"]
    ELSE [kind |-> "dollars",
          cents |-> RoundHalfEven(n * mapping[m], 100000)]

\* dict.setdefault in place of dict.get: the lookup inserts a missing model
MappingAfterGet_SetDefault(mapping, m) ==
    [k \in DOMAIN mapping \cup {m} |->
        IF k \in DOMAIN mapping THEN mapping[k] ELSE 0]

\* line 77: dict.get leaves the mapping as it is
MappingAfterGet(mapping, m) == mapping

\* caller invokes gpt3_complete(texts, model, ask_if_ok, max_tokens);
\* lines 103-109 up to the first blocking point
CallGpt3Complete ==
    /\ pc = "idle"
    /\ \E t \in TextsInputs, m \in Models, ask \in BOOLEAN,
          mt \in MaxTokensValues :
        /\ entry' = "gpt3_complete"
        /\ arg_texts' = t
        /\ texts' = Normalize(t)
        /\ model' = m
        /\ max_tokens' = mt
        /\ ask_if_ok' = ask
        /\ IF ask
           THEN /\ gate_texts' = PyIter(Normalize(t))
                /\ num_tokens' = GateTokens(PyIter(Normalize(t)), mt)
                /\ cost' = GateCost(model_to_cost_per_1k, m,
                                    GateTokens(PyIter(Normalize(t)), mt))
                /\ model_to_cost_per_1k' =
                       MappingAfterGet(model_to_cost_per_1k, m)
                /\ pc' = "gate"
           ELSE /\ UNCHANGED <<gate_texts, num_tokens, cost,
                               model_to_cost_per_1k>>
                /\ pc' = "for"
    /\ choices' = <<>>
    /\ UNCHANGED <<output, num_prompts, offset, texts_batch, batches,
                   retryVars, outcome, called_before>>

\* the gate without its raise: 'n' ends the loop and returns
GateInput_NoRaise ==
    /\ pc = "gate"
    /\ UNCHANGED moduleVars
    /\ output \notin {"y", "n"}
    /\ \E r \in Responses :
        /\ r \in {"y", "n"} \/ num_prompts < MaxPrompts
        /\ output' = r
        /\ num_prompts' = num_prompts + 1
        /\ outcome' = outcome
        /\ pc' = IF r \in {"y", "n"} THEN "for" ELSE "gate"
    /\ UNCHANGED <<argVars, gate_texts, num_tokens, cost, loopVars, retryVars>>

\* an if instead of the while: one prompt, anything but 'n' proceeds
GateInput_NoLoop ==
    /\ pc = "gate"
    /\ UNCHANGED moduleVars
    /\ output \notin {"y", "n"}
    /\ \E r \in Responses :
        /\ r \in {"y", "n"} \/ num_prompts < MaxPrompts
        /\ output' = r
        /\ num_prompts' = num_prompts + 1
        /\ IF r = "n"
           THEN /\ outcome' = [kind |-> "raise",
                               val |-> [kind |-> "UserCanceled", call |-> 0]]
                /\ pc' = "done"
           ELSE /\ outcome' = outcome
                /\ pc' = "for"
    /\ UNCHANGED <<argVars, gate_texts, num_tokens, cost, loopVars, retryVars>>

\* while output != 'y': an 'n' is asked about again and never raises
GateInput_OnlyYes ==
    /\ pc = "gate"
    /\ UNCHANGED moduleVars
    /\ output # "y"
    /\ \E r \in Responses :
        /\ r = "y" \/ num_prompts < MaxPrompts
        /\ output' = r
        /\ num_prompts' = num_prompts + 1
        /\ outcome' = outcome
        /\ pc' = IF r = "y" THEN "for" ELSE "gate"
    /\ UNCHANGED <<argVars, gate_texts, num_tokens, cost, loopVars, retryVars>>

\* lines 83-87: one input() of the gate's loop and what follows it
GateInput ==
    /\ pc = "gate"
    /\ UNCHANGED moduleVars
    /\ output \notin {"y", "n"}
    /\ \E r \in Responses :
        /\ r \in {"y", "n"} \/ num_prompts < MaxPrompts
        /\ output' = r
        /\ num_prompts' = num_prompts + 1
        /\ IF r = "n"
           THEN /\ outcome' = [kind |-> "raise",
                               val |-> [kind |-> "UserCanceled", call |-> 0]]
                /\ pc' = "done"
           ELSE /\ outcome' = outcome
                /\ pc' = IF r = "y" THEN "for" ELSE "gate"
    /\ UNCHANGED <<argVars, gate_texts, num_tokens, cost, loopVars, retryVars>>

\* prompt=texts instead of prompt=texts_batch
CompletionKwargs_AllTexts(chunk) ==
    [prompt |-> texts, model |-> model, max_tokens |-> max_tokens]

\* lines 113-115: the keyword arguments bound to the remote call
CompletionKwargs(chunk) ==
    [prompt |-> chunk, model |-> model, max_tokens |-> max_tokens]

\* one retry counter for the whole run: num_tries is not reset per chunk
ForNext_SharedBudget ==
    /\ pc = "for"
    /\ UNCHANGED moduleVars
    /\ offset < PyLen(texts)
    /\ LET chunk == constant(texts, batch_size, offset)
       IN /\ texts_batch' = chunk
          /\ kwargs' = CompletionKwargs(chunk)
          /\ batches' = Append(batches, CompletionKwargs(chunk).prompt)
    /\ offset' = offset + batch_size
    /\ max_num_tries' = default_max_num_tries
    /\ num_tries' = num_tries
    /\ e' = Unbound
    /\ exception' = Unbound
    /\ trace' = <<>>
    /\ retry_result' = NoResult
    /\ pc' = "while"
    /\ UNCHANGED <<argVars, gateVars, choices, response, calls, outcome>>

\* line 111 when the generator yields: lines 112-116 enter
\* openai_method_retry (line 48)
ForNext ==
    /\ pc = "for"
    /\ UNCHANGED moduleVars
    /\ offset < PyLen(texts)
    /\ LET chunk == constant(texts, batch_size, offset)
       IN /\ texts_batch' = chunk
          /\ kwargs' = CompletionKwargs(chunk)
          /\ batches' = Append(batches, CompletionKwargs(chunk).prompt)
    /\ offset' = offset + batch_size
    /\ max_num_tries' = default_max_num_tries
    /\ num_tries' = 0
    /\ e' = Unbound
    /\ exception' = Unbound
    /\ trace' = <<>>
    /\ retry_result' = NoResult
    /\ pc' = "while"
    /\ UNCHANGED <<argVars, gateVars, choices, response, calls, outcome>>

\* line 111 when the generator is exhausted: line 119
ForEnd ==
    /\ pc = "for"
    /\ UNCHANGED moduleVars
    /\ offset >= PyLen(texts)
    /\ outcome' = [kind |-> "return", val |-> choices]
    /\ pc' = "done"
    /\ UNCHANGED <<argVars, gateVars, loopVars, retryVars>>

\* the response's choices put in front of the accumulator
Extend_Prepend ==
    /\ pc = "extend"
    /\ UNCHANGED moduleVars
    /\ choices' = response.choices \o choices
    /\ pc' = "for"
    /\ UNCHANGED <<argVars, gateVars, offset, texts_batch, batches,
                   retryVars, outcome>>

\* lines 117-118
Extend ==
    /\ pc = "extend"
    /\ UNCHANGED moduleVars
    /\ choices' = choices \o response.choices
    /\ pc' = "for"
    /\ UNCHANGED <<argVars, gateVars, offset, texts_batch, batches,
                   retryVars, outcome>>

(* ------------------------- openai_method_retry ------------------------- *)
\* caller invokes openai_method_retry(openai.Completion.create,
\* max_num_tries=n, prompt=..., model=..., max_tokens=...); line 48
CallRetry ==
    /\ pc = "idle"
    /\ UNCHANGED moduleVars
    /\ \E n \in TriesValues, m \in Models, mt \in MaxTokensValues :
        /\ max_num_tries' = n
        /\ kwargs' = [prompt |-> PyList(<<TextOf(1)>>), model |-> m,
                      max_tokens |-> mt]
    /\ entry' = "openai_method_retry"
    /\ num_tries' = 0
    /\ e' = Unbound
    /\ exception' = Unbound
    /\ trace' = <<>>
    /\ retry_result' = NoResult
    /\ pc' = "while"
    /\ UNCHANGED <<arg_texts, texts, model, max_tokens, ask_if_ok, gateVars,
                   loopVars, response, calls, outcome>>

\* the loop test with <= : one attempt too many
RetryWhile_OffByOne ==
    /\ pc = "while"
    /\ UNCHANGED moduleVars
    /\ pc' = IF num_tries <= max_num_tries THEN "call" ELSE "raise"
    /\ UNCHANGED <<argVars, gateVars, loopVars, retryVars, outcome>>

\* line 49
RetryWhile ==
    /\ pc = "while"
    /\ UNCHANGED moduleVars
    /\ pc' = IF num_tries < max_num_tries THEN "call" ELSE "raise"
    /\ UNCHANGED <<argVars, gateVars, loopVars, retryVars, outcome>>

\* a bare except: every error is retried
IsTransient_Any(kind) == TRUE

\* lines 52-53
IsTransient(kind) == kind \in TransientKinds

\* gpt3_complete swallowing the error and returning what it has
Propagate_Partial(err) ==
    /\ retry_result' = [kind |-> "raise", val |-> err]
    /\ outcome' = IF entry = "gpt3_complete"
                  THEN [kind |-> "return", val |-> choices]
                  ELSE [kind |-> "raise", val |-> err]
    /\ pc' = "done"

\* an error leaves openai_method_retry; it passes through gpt3_complete
\* unhandled when that is the caller
Propagate(err) ==
    /\ retry_result' = [kind |-> "raise", val |-> err]
    /\ outcome' = [kind |-> "raise", val |-> err]
    /\ pc' = "done"

\* line 51, the remote call succeeds
InvokeSuccess ==
    /\ pc = "call"
    /\ UNCHANGED moduleVars
    /\ LET id == Len(calls) + 1
           r == Create(kwargs, id)
       IN /\ calls' = Append(calls, [kw |-> kwargs, ok |-> TRUE])
          /\ trace' = Append(trace, [kind |-> "ok", call |-> id])
          /\ response' = r
          /\ retry_result' = [kind |-> "return", val |-> r]
          /\ IF entry = "gpt3_complete"
             THEN /\ pc' = "extend"
                  /\ outcome' = outcome
             ELSE /\ pc' = "done"
                  /\ outcome' = [kind |-> "return", val |-> r]
    /\ UNCHANGED <<argVars, gateVars, loopVars, kwargs, max_num_tries,
                   num_tries, e, exception>>

\* line 51 raises; lines 52-56 or propagation
InvokeError ==
    /\ pc = "call"
    /\ UNCHANGED moduleVars
    /\ \E k \in TransientKinds \cup OtherKinds :
        LET id == Len(calls) + 1
            err == [kind |-> k, call |-> id]
        IN /\ calls' = Append(calls, [kw |-> kwargs, ok |-> FALSE])
           /\ trace' = Append(trace, err)
           /\ IF IsTransient(k)
              THEN /\ e' = err
                   /\ num_tries' = num_tries + 1
                   /\ pc' = "sleep"
                   /\ UNCHANGED <<retry_result, outcome>>
              ELSE /\ Propagate(err)
                   /\ UNCHANGED <<e, num_tries>>
    /\ UNCHANGED <<argVars, gateVars, loopVars, kwargs, max_num_tries,
                   exception, response>>

\* the except block without its time.sleep
RetrySleep_NoSleep ==
    /\ pc = "sleep"
    /\ UNCHANGED moduleVars
    /\ exception' = e
    /\ pc' = "while"
    /\ UNCHANGED <<argVars, gateVars, loopVars, kwargs, max_num_tries,
                   num_tries, e, trace, retry_result, response, calls,
                   outcome>>

\* the except block remembering only the first error
RetrySleep_KeepFirst ==
    /\ pc = "sleep"
    /\ UNCHANGED moduleVars
    /\ trace' = Append(trace, SleepEvent)
    /\ exception' = IF exception = Unbound THEN e ELSE exception
    /\ pc' = "while"
    /\ UNCHANGED <<argVars, gateVars, loopVars, kwargs, max_num_tries,
                   num_tries, e, retry_result, response, calls, outcome>>

\* the except block losing a keyword argument before the retry
RetrySleep_DropKwargs ==
    /\ pc = "sleep"
    /\ UNCHANGED moduleVars
    /\ trace' = Append(trace, SleepEvent)
    /\ exception' = e
    /\ kwargs' = [kwargs EXCEPT !.max_tokens = 0]
    /\ pc' = "while"
    /\ UNCHANGED <<argVars, gateVars, loopVars, max_num_tries,
                   num_tries, e, retry_result, response, calls, outcome>>

\* lines 57-58
RetrySleep ==
    /\ pc = "sleep"
    /\ UNCHANGED moduleVars
    /\ trace' = Append(trace, SleepEvent)
    /\ exception' = e
    /\ pc' = "while"
    /\ UNCHANGED <<argVars, gateVars, loopVars, kwargs, max_num_tries,
                   num_tries, e, retry_result, response, calls, outcome>>

\* lines 59-60; reading an unbound local raises UnboundLocalError
RetryRaise ==
    /\ pc = "raise"
    /\ UNCHANGED moduleVars
    /\ IF exception = Unbound
       THEN Propagate([kind |-> "UnboundLocalError", call |-> 0])
       ELSE Propagate(exception)
    /\ UNCHANGED <<argVars, gateVars, loopVars, kwargs, max_num_tries,
                   num_tries, e, exception, trace, response, calls>>

Next ==
    \/ CallGpt3Complete
    \/ GateInput
    \/ ForNext
    \/ ForEnd
    \/ Extend
    \/ CallRetry
    \/ RetryWhile
    \/ InvokeSuccess
    \/ InvokeError
    \/ RetrySleep
    \/ RetryRaise

Spec == Init /\ [][Next]_vars

\* the caller has consumed the result or the error: the frames of the
\* finished invocation and their locals are gone, module-level state stays
Again ==
    /\ pc = "done"
    /\ pc' = "idle"
    /\ entry' = "none"
    /\ arg_texts' = PyList(<<>>)
    /\ texts' = PyList(<<>>)
    /\ model' = "text-davinci-003"
    /\ max_tokens' = 0
    /\ ask_if_ok' = FALSE
    /\ gate_texts' = <<>>
    /\ num_tokens' = 0
    /\ cost' = NoCost
    /\ output' = "None"
    /\ num_prompts' = 0
    /\ choices' = <<>>
    /\ offset' = 0
    /\ texts_batch' = PyList(<<>>)
    /\ batches' = <<>>
    /\ kwargs' = [prompt |-> PyList(<<>>), model |-> "text-davinci-003",
                  max_tokens |-> 0]
    /\ max_num_tries' = default_max_num_tries
    /\ num_tries' = 0
    /\ e' = Unbound
    /\ exception' = Unbound
    /\ trace' = <<>>
    /\ retry_result' = NoResult
    /\ response' = [choices |-> <<>>]
    /\ calls' = <<>>
    /\ outcome' = NoResult
    /\ called_before' = TRUE
    /\ UNCHANGED model_to_cost_per_1k

\* a caller that invokes the two functions again and again
NextAgain == Next \/ Again

AgainSpec == Init /\ [][NextAgain]_vars

\* openai_method_retry called on its own; every statement of the function,
\* the remote call and time.sleep included, completes once it is reached
NextRetry ==
    \/ CallRetry
    \/ RetryWhile
    \/ InvokeSuccess
    \/ InvokeError
    \/ RetrySleep
    \/ RetryRaise

RetrySpec ==
    /\ Init
    /\ [][NextRetry]_vars
    /\ WF_vars(RetryWhile)
    /\ WF_vars(InvokeSuccess \/ InvokeError)
    /\ WF_vars(RetrySleep)
    /\ WF_vars(RetryRaise)

(* ------------------------ vocabulary of the claims --------------------- *)
\* indices of trace that are invocations of the operation
Invocations == {i \in DOMAIN trace : trace[i].kind # "sleep"}
Sleeps == {i \in DOMAIN trace : trace[i].kind = "sleep"}
TransientFailures == {i \in DOMAIN trace : trace[i].kind \in TransientKinds}
NumInvocations == Cardinality(Invocations)
NumSleeps == Cardinality(Sleeps)
NumTransient == Cardinality(TransientFailures)
\* every invocation so far failed with a transient error
AllTransient == Invocations = TransientFailures
LastInvocation == CHOOSE i \in Invocations : \A j \in Invocations : j <= i
\* n transient failures followed by one success
FailsThenSucceeds ==
    /\ trace # <<>>
    /\ trace[Len(trace)].kind = "ok"
    /\ Invocations = TransientFailures \cup {Len(trace)}

(* -------------------------------- C1 ----------------------------------- *)
\* C1: with max_num_tries >= 1, when the operation fails transiently on its
\* first n < max_num_tries invocations and succeeds on invocation n+1,
\* openai_method_retry returns that success value after exactly n+1
\* invocations and exactly n sleeps; and it returns only in that way.
C1_ReturnsAfterNFailures ==
    /\ (max_num_tries >= 1 /\ FailsThenSucceeds
            /\ NumTransient < max_num_tries) =>
          /\ retry_result.kind = "return"
          /\ retry_result.val = Create(kwargs, trace[Len(trace)].call)
          /\ NumInvocations = NumTransient + 1
          /\ NumSleeps = NumTransient
    /\ retry_result.kind = "return" =>
          /\ FailsThenSucceeds
          /\ NumTransient < max_num_tries

C1_Witness ==
    /\ entry = "openai_method_retry"
    /\ max_num_tries = 3
    /\ retry_result.kind = "return"
    /\ NumTransient = 2
    /\ NumSleeps = 2

(* -------------------------------- C2 ----------------------------------- *)
\* C2: with max_num_tries >= 1, when the operation fails transiently on every
\* invocation, openai_method_retry raises after exactly max_num_tries
\* invocations and exactly max_num_tries - 1 sleeps.
C2_ExhaustionCounts ==
    (max_num_tries >= 1 /\ retry_result.kind = "raise" /\ AllTransient) =>
        /\ NumInvocations = max_num_tries
        /\ NumSleeps = max_num_tries - 1

(* -------------------------------- C3 ----------------------------------- *)
\* C3: an invocation that fails with an error that is neither
\* ServiceUnavailableError nor RateLimitError ends openai_method_retry at
\* once with that same error: it is the last event of the call, so no later
\* invocation and no later sleep exists.
C3_OtherErrorPropagates ==
    \A i \in DOMAIN trace :
        trace[i].kind \in OtherKinds =>
            /\ i = Len(trace)
            /\ retry_result = [kind |-> "raise", val |-> trace[i]]
            /\ outcome = [kind |-> "raise", val |-> trace[i]]
            /\ pc = "done"
            /\ (i = 1 => NumSleeps = 0)

C3_Witness ==
    /\ Len(trace) = 3
    /\ trace[3].kind \in OtherKinds
    /\ trace[1].kind \in TransientKinds
    /\ retry_result.kind = "raise"

(* -------------------------------- C4 ----------------------------------- *)
\* C4: when all max_num_tries >= 1 attempts fail with transient errors, the
\* error raised is the error of the last attempt and of no earlier attempt.
C4_RaisesLastError ==
    (max_num_tries >= 1 /\ retry_result.kind = "raise" /\ AllTransient) =>
        /\ NumInvocations = max_num_tries
        /\ retry_result.val = trace[LastInvocation]
        /\ \A i \in Invocations :
              i # LastInvocation => retry_result.val # trace[i]

C4_Witness ==
    /\ max_num_tries = 3
    /\ retry_result.kind = "raise"
    /\ AllTransient
    /\ NumInvocations = 3
    /\ trace[1].kind = "RateLimitError"
    /\ trace[LastInvocation].kind = "ServiceUnavailableError"
    /\ retry_result.val.kind = "ServiceUnavailableError"

(* ---------------------- vocabulary of C5 .. C10 ------------------------ *)
\* the caller's texts as the list the claims count: a bare string is one text
InputTexts == IF IsStr(arg_texts) THEN <<arg_texts>> ELSE arg_texts.items
N == Len(InputTexts)
Ceil20(n) == (n + 19) \div 20
Returned == entry = "gpt3_complete" /\ pc = "done" /\ outcome.kind = "return"
SuccessfulCalls == {k \in DOMAIN calls : calls[k].ok}
\* the j-th consecutive chunk of size 20 of the input
Chunk20(j) ==
    PyList(SubSeq(InputTexts, 20 * (j - 1) + 1, Min(20 * j, N)))
\* the number of successful calls among the first k calls
SuccessesUpTo(k) == Cardinality({i \in SuccessfulCalls : i <= k})
\* result r is the full list: one choice per text, in input order
FullOrderedResult(r) ==
    /\ Len(r) = N
    /\ \A i \in 1..Len(r) : r[i].prompt = InputTexts[i]

(* -------------------------------- C5 ----------------------------------- *)
\* C5: whenever gpt3_complete returns, the list has exactly N elements and
\* element i is the choice a successful remote call produced for texts[i];
\* no choice of the remote endpoint is duplicated, dropped or reordered.
C5_ResultAligned ==
    Returned =>
        /\ FullOrderedResult(outcome.val)
        /\ \A i \in 1..Len(outcome.val) :
              LET c == outcome.val[i]
              IN /\ c.call \in SuccessfulCalls
                 /\ c = Create(calls[c.call].kw, c.call).choices[c.index + 1]
                 /\ c.index = (i - 1) % 20
        /\ \A i, j \in 1..Len(outcome.val) :
              i < j =>
                 \/ outcome.val[i].call < outcome.val[j].call
                 \/ /\ outcome.val[i].call = outcome.val[j].call
                    /\ outcome.val[i].index < outcome.val[j].index
        /\ \A k \in SuccessfulCalls :
              \A c \in {Create(calls[k].kw, k).choices[x] :
                           x \in 1..PyLen(calls[k].kw.prompt)} :
                 \E i \in 1..Len(outcome.val) : outcome.val[i] = c

C5_Witness ==
    /\ Returned
    /\ N = 45
    /\ Len(outcome.val) = 45
    /\ Len(calls) > 3
    /\ ~calls[1].ok

(* -------------------------------- C6 ----------------------------------- *)
\* C6 as stated: a returning run over N texts issues ceil(N/20) remote
\* calls, whose prompt batches are the consecutive chunks of size 20, and
\* returns exactly N results in input order.
C6_Original ==
    Returned =>
        /\ Len(calls) = Ceil20(N)
        /\ \A k \in DOMAIN calls : calls[k].kw.prompt = Chunk20(k)
        /\ FullOrderedResult(outcome.val)

\* C6 amended: a returning run over N texts issues exactly ceil(N/20)
\* successful remote calls, whose prompt batches are the consecutive chunks
\* of size 20 (45 texts: 20, 20, 5); every other call is a failed attempt
\* at the chunk of the next successful call; exactly N results are returned
\* in input order.
C6_SuccessfulCallsPerChunk ==
    Returned =>
        /\ Cardinality(SuccessfulCalls) = Ceil20(N)
        /\ \A k \in DOMAIN calls :
              calls[k].kw.prompt =
                 Chunk20(SuccessesUpTo(k) + IF calls[k].ok THEN 0 ELSE 1)
        /\ calls # <<>> => calls[Len(calls)].ok
        /\ (N = 45 =>
              \E a, b, c \in SuccessfulCalls :
                 /\ a < b /\ b < c
                 /\ PyLen(calls[a].kw.prompt) = 20
                 /\ PyLen(calls[b].kw.prompt) = 20
                 /\ PyLen(calls[c].kw.prompt) = 5)
        /\ FullOrderedResult(outcome.val)

C6_Witness ==
    /\ Returned
    /\ N = 45
    /\ Cardinality(SuccessfulCalls) = 3
    /\ Len(calls) = 5
    /\ Len(outcome.val) = 45

(* -------------------------------- C7 ----------------------------------- *)
RECURSIVE Concat(_)
Concat(bs) == IF bs = <<>> THEN <<>> ELSE Head(bs).items \o Concat(Tail(bs))

\* C7: the prompt batches gpt3_complete hands to the retrying caller are
\* the size-20 chunking of texts: every batch is a list of 1..20 texts,
\* every batch but the last has 20, together they are a prefix of texts
\* without overlap, and the whole of texts once gpt3_complete returns;
\* every remote call carries one of them; empty texts send nothing.
C7_BatchesAreChunks ==
    entry = "gpt3_complete" =>
        /\ \A j \in DOMAIN batches :
              /\ ~IsStr(batches[j])
              /\ PyLen(batches[j]) >= 1
              /\ PyLen(batches[j]) <= 20
              /\ j < Len(batches) => PyLen(batches[j]) = 20
              /\ batches[j] = Chunk20(j)
        /\ Len(Concat(batches)) <= N
        /\ Concat(batches) = SubSeq(InputTexts, 1, Len(Concat(batches)))
        /\ Returned => Concat(batches) = InputTexts
        /\ \A k \in DOMAIN calls :
              \E j \in DOMAIN batches : calls[k].kw.prompt = batches[j]
        /\ N = 0 => batches = <<>> /\ calls = <<>>

C7_Witness ==
    /\ Returned
    /\ N = 45
    /\ Len(batches) = 3
    /\ PyLen(batches[3]) = 5
    /\ Len(calls) = 4

C7_WitnessEmpty == Returned /\ N = 0 /\ batches = <<>>

(* -------------------------------- C8 ----------------------------------- *)
\* C8: when the operator declines the gate of gpt3_complete, the run ends
\* with UserCanceled and no remote call was made; no remote call is made
\* before the gate has finished.
C8_DeclineMakesNoCall ==
    (entry = "gpt3_complete" /\ ask_if_ok) =>
        /\ output = "n" =>
              /\ pc = "done"
              /\ outcome = [kind |-> "raise",
                            val |-> [kind |-> "UserCanceled", call |-> 0]]
              /\ calls = <<>>
              /\ batches = <<>>
        /\ output # "y" => calls = <<>> /\ pc \in {"gate", "done"}
        /\ pc = "gate" => calls = <<>>

C8_Witness ==
    /\ entry = "gpt3_complete"
    /\ ask_if_ok
    /\ N = 45
    /\ num_prompts = 2
    /\ output = "n"
    /\ pc = "done"

(* -------------------------------- C9 ----------------------------------- *)
\* C9: when a chunk's remote call ultimately fails, gpt3_complete raises
\* that error and returns no list, whatever was accumulated; a finished run
\* is either the full ordered N-element list or a raised error.
C9_AllOrNothing ==
    entry = "gpt3_complete" =>
        /\ retry_result.kind = "raise" =>
              /\ pc = "done"
              /\ outcome = [kind |-> "raise", val |-> trace[LastInvocation]]
              /\ retry_result.val = trace[LastInvocation]
        /\ pc = "done" =>
              \/ /\ outcome.kind = "return"
                 /\ FullOrderedResult(outcome.val)
                 /\ retry_result.kind # "raise"
              \/ /\ outcome.kind = "raise"
                 /\ outcome.val.kind \in
                       TransientKinds \cup OtherKinds \cup {"UserCanceled"}
        /\ pc # "done" => outcome = NoResult

C9_Witness ==
    /\ entry = "gpt3_complete"
    /\ pc = "done"
    /\ outcome.kind = "raise"
    /\ outcome.val.kind \in TransientKinds
    /\ Len(choices) = 40
    /\ N = 45

C9_WitnessOther ==
    /\ entry = "gpt3_complete"
    /\ pc = "done"
    /\ outcome.kind = "raise"
    /\ outcome.val.kind \in OtherKinds
    /\ Len(choices) = 20

(* -------------------------------- C10 ---------------------------------- *)
\* C10: a bare string is treated as the one-element list holding it: the
\* gate counts one text, exactly one chunk is formed, every prompt batch is
\* the one-element list with the whole string, the result has one element.
C10_BareString ==
    (entry = "gpt3_complete" /\ IsStr(arg_texts)) =>
        /\ texts = PyList(<<arg_texts>>)
        /\ ask_if_ok =>
              /\ gate_texts = <<arg_texts>>
              /\ num_tokens = TokenCount(arg_texts) + max_tokens
        /\ Len(batches) <= 1
        /\ \A j \in DOMAIN batches : batches[j] = PyList(<<arg_texts>>)
        /\ \A k \in DOMAIN calls : calls[k].kw.prompt = PyList(<<arg_texts>>)
        /\ Returned =>
              /\ Len(batches) = 1
              /\ Len(outcome.val) = 1
              /\ outcome.val[1].prompt = arg_texts

C10_Witness ==
    /\ Returned
    /\ IsStr(arg_texts)
    /\ Len(arg_texts.chars) = 3
    /\ ask_if_ok
    /\ Len(outcome.val) = 1

C10_WitnessEmptyString ==
    /\ Returned
    /\ IsStr(arg_texts)
    /\ arg_texts.chars = <<>>
    /\ Len(batches) = 1

(* -------------------------------- C11 ---------------------------------- *)
UserCanceled == [kind |-> "raise", val |-> [kind |-> "UserCanceled", call |-> 0]]
\* the gate of this run has read at least one response
GateAnswered == entry = "gpt3_complete" /\ ask_if_ok /\ num_prompts >= 1

\* C11 as stated: after a response the gate fails with UserCanceled if the
\* response is 'n' and proceeds (is left) for every other response.
C11_Original ==
    GateAnswered =>
        /\ output = "n" => pc = "done" /\ outcome = UserCanceled
        /\ output # "n" => pc # "gate" /\ outcome # UserCanceled

\* C11 amended: after a response the gate fails with UserCanceled if the
\* response is 'n', returns normally if it is 'y', and for every other
\* response neither fails nor returns but prompts again.
C11_GateOutcome ==
    GateAnswered =>
        /\ output = "n" => pc = "done" /\ outcome = UserCanceled
        /\ output = "y" => pc # "gate" /\ outcome # UserCanceled
        /\ output \notin {"y", "n"} => pc = "gate" /\ outcome = NoResult

C11_Witness ==
    /\ GateAnswered
    /\ output = "yes"
    /\ pc = "gate"
    /\ N = 3

C11_WitnessProceeds ==
    /\ GateAnswered
    /\ output = "y"
    /\ num_prompts = 2
    /\ pc = "call"

(* -------------------------------- C12 ---------------------------------- *)
\* the step is an invocation that fails with a transient error
TransientStep ==
    /\ pc = "call"
    /\ Len(trace') = Len(trace) + 1
    /\ trace'[Len(trace')].kind \in TransientKinds

\* C12: a run of openai_method_retry follows {Attempting, Sleeping,
\* Succeeded, Exhausted}: Sleeping (pc = "sleep") is entered only after a
\* transient error when attempts remain; every Sleeping is followed by
\* another invocation; a transient error with no attempts remaining leads to
\* Exhausted without a sleep; after Succeeded or Exhausted the call has no
\* further invocation or sleep.
C12_StateMachine ==
    [][ /\ (pc # "sleep" /\ pc' = "sleep") =>
              TransientStep /\ num_tries' < max_num_tries
        /\ (pc = "while" /\ trace # <<>> /\ trace[Len(trace)] = SleepEvent) =>
              pc' = "call"
        /\ (TransientStep /\ num_tries' >= max_num_tries) => pc' # "sleep"
        /\ (retry_result.kind # "none" /\ retry_result' = retry_result) =>
              trace' = trace
      ]_vars

(* -------------------------------- C13 ---------------------------------- *)
\* openai_method_retry has been entered and has neither returned nor raised
RetryRunning == pc \in {"while", "call", "sleep", "raise"}
RetryEntered == entry = "openai_method_retry"
Max(a, b) == IF a > b THEN a ELSE b

\* C13 as stated: for every max_num_tries and every behaviour of the
\* operation, openai_method_retry eventually returns or raises, and the
\* number of invocations is at every point at most max_num_tries.
C13_Original ==
    /\ [](RetryEntered => NumInvocations <= max_num_tries)
    /\ (RetryRunning ~> ~RetryRunning)

\* C13 amended: for every max_num_tries and every behaviour of the
\* operation, openai_method_retry eventually returns or raises, and the
\* number of invocations is at every point at most max(max_num_tries, 0).
C13_Terminates ==
    /\ [](RetryEntered => NumInvocations <= Max(max_num_tries, 0))
    /\ (RetryRunning ~> ~RetryRunning)

C13_Witness ==
    /\ RetryEntered
    /\ pc = "done"
    /\ max_num_tries = 4
    /\ NumInvocations = 4
    /\ retry_result.kind = "raise"

C13_WitnessNegative ==
    /\ RetryEntered
    /\ pc = "done"
    /\ max_num_tries < 0
    /\ NumInvocations = 0

(* -------------------------------- C14 ---------------------------------- *)
\* the number of successful calls before call k
SuccessesBefore(k) == Cardinality({i \in SuccessfulCalls : i < k})

\* C14: the remote calls of gpt3_complete are sequential in chunk order: a
\* call carries the chunk after those whose calls succeeded before it, so
\* chunk j+1 is not sent before chunk j succeeded; the call after a failed
\* call carries exactly the same prompt, model and max_tokens; a chunk whose
\* call succeeded is never sent again.
C14_SequentialChunks ==
    entry = "gpt3_complete" =>
        /\ \A k \in DOMAIN calls :
              /\ calls[k].kw.prompt = Chunk20(SuccessesBefore(k) + 1)
              /\ calls[k].kw.model = model
              /\ calls[k].kw.max_tokens = max_tokens
              /\ (k < Len(calls) /\ ~calls[k].ok) =>
                    calls[k + 1].kw = calls[k].kw
              /\ calls[k].ok =>
                    \A l \in DOMAIN calls :
                       k < l => calls[l].kw.prompt # calls[k].kw.prompt
        /\ (pc \in {"while", "call", "sleep"} /\ trace # <<>>) =>
              kwargs = calls[Len(calls)].kw

C14_Witness ==
    /\ entry = "gpt3_complete"
    /\ N = 45
    /\ max_tokens > 0
    /\ Len(calls) = 6
    /\ ~calls[2].ok /\ ~calls[3].ok /\ calls[4].ok
    /\ ~calls[5].ok /\ calls[6].ok
    /\ PyLen(calls[6].kw.prompt) = 5

(* -------------------------------- C15 ---------------------------------- *)
GateEntered == entry = "gpt3_complete" /\ ask_if_ok
\* the sum of the tokenized lengths of the first n input texts
RECURSIVE PromptTokens(_)
PromptTokens(n) ==
    IF n = 0 THEN 0 ELSE Len(InputTexts[n].chars) + PromptTokens(n - 1)

\* C15: the gate's token count is the sum of the tokenized lengths of all
\* texts plus len(texts) * max_tokens; the cost is 'unknown' exactly when
\* the model is not a key of the model-to-cost mapping, and otherwise the
\* dollar amount nearest, to the cent, to token count times the model's rate
\* per 1000 tokens divided by 1000; both are fixed before the first prompt
\* and do not change while the gate prompts again.
C15_CostEstimate ==
    /\ [](GateEntered =>
            /\ num_tokens = PromptTokens(N) + N * max_tokens
            /\ cost.kind = "unknown" <=> model \notin DOMAIN InitialCosts
            /\ cost.kind \in {"unknown", "dollars"}
            /\ cost.kind = "dollars" =>
                  LET exact == num_tokens * InitialCosts[model]
                      shown == cost.cents * 100000
                  IN /\ 2 * (shown - exact) <= 100000
                     /\ 2 * (exact - shown) <= 100000)
    /\ [][(pc = "gate" /\ pc' # "idle") =>
            cost' = cost /\ num_tokens' = num_tokens]_vars

C15_Witness ==
    /\ GateEntered
    /\ pc = "gate"
    /\ num_prompts = 1
    /\ model = "text-davinci-003"
    /\ num_tokens = 788
    /\ cost = [kind |-> "dollars", cents |-> 2]

C15_WitnessUnknown ==
    /\ GateEntered
    /\ pc = "gate"
    /\ num_prompts = 1
    /\ model = "my-finetuned-model"
    /\ cost.kind = "unknown"

(* -------------------------------- C16 ---------------------------------- *)
\* the j-th successful remote call of this invocation
NthSuccess(j) == CHOOSE k \in SuccessfulCalls : SuccessesBefore(k) = j - 1
\* the result as a function of this invocation's texts and remote calls only
ExpectedResult ==
    [i \in 1..N |->
        [prompt |-> InputTexts[i], index |-> (i - 1) % 20,
         call |-> NthSuccess(((i - 1) \div 20) + 1)]]
ErrorsOfThisCall == {trace[i] : i \in Invocations}

\* C16: invocations are independent: neither function writes the
\* model-to-cost mapping or the caller's texts, and an invocation that follows
\* a finished one (returned or failed) starts its accumulator, retry counter
\* and remembered exception afresh, so its cost estimate and its result are
\* those its own inputs and its own remote calls determine.
C16_Independent ==
    /\ [][model_to_cost_per_1k' = model_to_cost_per_1k]_vars
    /\ [][(pc # "idle" /\ pc' # "idle") => arg_texts' = arg_texts]_vars
    /\ [](called_before =>
            /\ pc = "idle" =>
                  choices = <<>> /\ num_tries = 0 /\ exception = Unbound
            /\ pc \in {"while", "call", "sleep", "raise"} =>
                  /\ num_tries = NumTransient
                  /\ exception \in ErrorsOfThisCall \cup {Unbound}
            /\ entry = "gpt3_complete" =>
                  /\ Len(choices) <= N
                  /\ \A i \in DOMAIN choices : choices[i].call \in DOMAIN calls
            /\ GateEntered =>
                  cost = GateCost(InitialCosts, model, num_tokens)
            /\ Returned => outcome.val = ExpectedResult
            /\ (pc = "done" /\ outcome.kind = "raise"
                   /\ outcome.val.kind \in TransientKinds \cup OtherKinds) =>
                  outcome.val \in ErrorsOfThisCall)

C16_Witness ==
    /\ called_before
    /\ Returned
    /\ N = 45
    /\ ask_if_ok
    /\ Len(calls) = 4
    /\ ~calls[1].ok

C16_WitnessAfterFailure ==
    /\ called_before
    /\ entry = "gpt3_complete"
    /\ pc = "done"
    /\ outcome.kind = "raise"
    /\ outcome.val.kind = "RateLimitError"
    /\ Len(choices) = 20

(* -------------------------------- C17 ---------------------------------- *)
\* C17: the retry budget of gpt3_complete is per chunk: every chunk's call
\* starts with a count of 0 and counts only its own failures, whatever
\* earlier chunks consumed, and may be attempted 5 times; a run over N texts
\* issues at most 5 * ceil(N/20) remote calls and exactly ceil(N/20) of them
\* have succeeded when it returns.
C17_BudgetPerChunk ==
    entry = "gpt3_complete" =>
        /\ pc \in {"while", "call", "sleep", "raise"} =>
              /\ max_num_tries = 5
              /\ num_tries = NumTransient
              /\ trace = <<>> => num_tries = 0
              /\ pc = "call" => NumInvocations < 5
        /\ NumInvocations <= 5
        /\ Len(calls) <= 5 * Ceil20(N)
        /\ Len(calls) <= 5 * Len(batches)
        /\ Returned =>
              /\ Cardinality(SuccessfulCalls) = Ceil20(N)
              /\ Len(calls) - Cardinality(SuccessfulCalls) <= 4 * Ceil20(N)

C17_Witness ==
    /\ Returned
    /\ N = 40
    /\ Len(calls) = 10
    /\ calls[5].ok
    /\ NumInvocations = 5

C17_WitnessFifthAttempt ==
    /\ entry = "gpt3_complete"
    /\ Len(batches) = 3
    /\ Len(calls) = 14
    /\ pc = "call"
    /\ NumInvocations = 4

(* -------------------------------- C18 ---------------------------------- *)
\* C18: for every integer max_num_tries, 0 and negative values included,
\* an error that openai_method_retry raises is an error the operation raised
\* during this call.
C18_OnlyOperationErrors ==
    retry_result.kind = "raise" => retry_result.val \in ErrorsOfThisCall

(* -------------------------------- C19 ---------------------------------- *)
\* C19: the gate ends only on 'y' or 'n': it is still prompting exactly
\* while no answer was 'y' or 'n', and then nothing was returned and no
\* remote call was made; every answer read costs one prompt; the first 'y'
\* makes it return and the first 'n' makes it raise UserCanceled, and after
\* that no further answer is read.
C19_GateEndsOnYesOrNo ==
    /\ [](GateEntered =>
            /\ pc = "gate" <=> output \notin {"y", "n"}
            /\ pc = "gate" =>
                  calls = <<>> /\ batches = <<>> /\ outcome = NoResult
            /\ output = "y" => num_prompts >= 1 /\ outcome # UserCanceled
            /\ output = "n" =>
                  /\ num_prompts >= 1
                  /\ pc = "done"
                  /\ outcome = UserCanceled
                  /\ calls = <<>>)
    /\ [][(pc = "gate" /\ pc' # "idle") =>
            num_prompts' = num_prompts + 1]_vars
    /\ [][(GateEntered /\ output \in {"y", "n"} /\ pc' # "idle") =>
            output' = output /\ num_prompts' = num_prompts]_vars

C19_Witness ==
    /\ Returned
    /\ ask_if_ok
    /\ output = "y"
    /\ num_prompts = 2
    /\ Len(calls) = 3

C19_WitnessStillAsking ==
    /\ GateEntered
    /\ pc = "gate"
    /\ num_prompts = 1
    /\ output = "yes"
====
